---- MODULE Spec2Model ----
(***************************************************************************)
(* Model of the DynamicInputs demo node of ComfyUI-FrontendPatches         *)
(* (src/__init__.py).  DynamicInputs.execute walks its keyword arguments,  *)
(* renders each one as a string and returns the JSON text of a report     *)
(* {"input_count": N, "inputs": {name: {"type": .., "value": ..}}}.        *)
(*                                                                         *)
(* Python strings are modelled as sequences of one-character strings, so   *)
(* that slicing, escaping and decoding are computed character by           *)
(* character.  Python dicts are modelled as sequences of <<key, value>>    *)
(* pairs in insertion order, which is the order json.dumps writes.         *)
(***************************************************************************)
EXTENDS Integers, Sequences, FiniteSets, TLC

(***************************************************************************)
(* Bounds of the model and the one numeric constant of the program.        *)
(***************************************************************************)
\* largest number of keyword arguments of one call
MaxInputs == 2

\* str(value)[:100], line 48
TruncLen == 100

(***************************************************************************)
(* Strings.                                                                *)
(***************************************************************************)
\* n copies of the character c
Rep(c, n) == [i \in 1..n |-> c]

Min(a, b) == IF a <= b THEN a ELSE b

\* Faulty variant of Slice: the slice is left out, str(value)
SliceNone(s, n) == s

\* Python's s[:n] for n >= 0
Slice(s, n) == SubSeq(s, 1, Min(n, Len(s)))

Digits == <<"0", "1", "2", "3", "4", "5", "6", "7", "8", "9">>

RECURSIVE NatStr(_)
NatStr(n) == IF n < 10 THEN <<Digits[n + 1]>>
             ELSE NatStr(n \div 10) \o <<Digits[(n % 10) + 1]>>

\* int.__repr__
IntStr(n) == IF n < 0 THEN <<"-">> \o NatStr(0 - n) ELSE NatStr(n)

RECURSIVE JoinCommaSpace(_)
\* ", ".join(items) for a sequence of strings
JoinCommaSpace(items) ==
    IF Len(items) = 0 THEN <<>>
    ELSE IF Len(items) = 1 THEN items[1]
    ELSE items[1] \o <<",", " ">> \o JoinCommaSpace(Tail(items))

\* str(list_of_ints): "[2, 3]"
ListStr(dims) == <<"[">> \o JoinCommaSpace([i \in 1..Len(dims) |-> IntStr(dims[i])]) \o <<"]">>

(***************************************************************************)
(* Input values.  A value supplied by the host is a record:                *)
(*   kind      "int", "float", "str" or "obj" (any other class)            *)
(*   cls       type(value).__name__                                        *)
(*   n, frac   the integer, or the whole part and the fraction digits      *)
(*   text      the characters of a str, or what __str__ returns            *)
(*   strRaises __str__ raises                                              *)
(*   shapeAttr what getattr(value, 'shape') does: "absent" (AttributeError)*)
(*             "present", or "raises" (any other exception)                *)
(*   shape     the dimensions when present                                 *)
(*   shapeIter whether list(value.shape) works                             *)
(***************************************************************************)
Value(kind, cls, n, frac, text, strRaises, shapeAttr, shape, shapeIter) ==
    [kind |-> kind, cls |-> cls, n |-> n, frac |-> frac, text |-> text,
     strRaises |-> strRaises, shapeAttr |-> shapeAttr, shape |-> shape,
     shapeIter |-> shapeIter]

PyIntValue(n) == Value("int", <<"i", "n", "t">>, n, <<>>, <<>>, FALSE, "absent", <<>>, FALSE)
PyFloatValue(n, frac) ==
    Value("float", <<"f", "l", "o", "a", "t">>, n, frac, <<>>, FALSE, "absent", <<>>, FALSE)
PyStrValue(text) == Value("str", <<"s", "t", "r">>, 0, <<>>, text, FALSE, "absent", <<>>, FALSE)
TensorValue(shape, text) ==
    Value("obj", <<"T", "e", "n", "s", "o", "r">>, 0, <<>>, text, FALSE, "present", shape, TRUE)

Five == PyIntValue(5)
Pi == PyFloatValue(3, <<1, 4>>)
Hello == PyStrValue(<<"h", "e", "l", "l", "o">>)
\* a str holding a quote, a backslash, a newline and the character U+00E9,
\* written "<e9>"
Special == PyStrValue(<<"\"", "\\", "\n", "<e9>">>)
\* a str one character longer than the slice keeps
LongStr == PyStrValue(Rep("z", TruncLen) \o <<"!">>)
\* a 2x3 tensor whose printed form is longer than the slice keeps
Tensor23 == TensorValue(<<2, 3>>, <<"t", "(">> \o Rep("0", TruncLen) \o <<")">>)
\* a tensor of so many dimensions that "tensor[..]" is longer than TruncLen
DeepTensor == TensorValue([i \in 1..(TruncLen \div 3) |-> 16], <<"t", "(", ")">>)
\* an object whose shape attribute is a number: list(value.shape) raises
ScalarShape ==
    Value("obj", <<"B", "o", "x">>, 0, <<>>, <<"b">>, FALSE, "present", <<>>, FALSE)
\* an object whose shape property raises something other than AttributeError
ShapeRaises ==
    Value("obj", <<"L", "a", "z", "y">>, 0, <<>>, <<"l">>, FALSE, "raises", <<>>, FALSE)
\* an object whose __str__ raises
StrRaises ==
    Value("obj", <<"B", "a", "d">>, 0, <<>>, <<>>, TRUE, "absent", <<>>, FALSE)

Values == {Five, Pi, Hello, Special, LongStr, Tensor23, DeepTensor,
           ScalarShape, ShapeRaises, StrRaises}

\* input names: keyword names are arbitrary strings when the host passes **dict
Names == {<<"x">>, <<"a">>, <<"b", "\"">>}

\* Faulty variant of TypeName: str(type(value)) in place of the class name
TypeNameRepr(v) == <<"<", "c", "l", "a", "s", "s", " ", "'">> \o v.cls \o <<"'", ">">>

\* type(value).__name__, line 51
TypeName(v) == v.cls

\* hasattr(value, 'shape'), line 45: "raises" when the attribute lookup raises
\* anything but AttributeError
HasAttrShape(v) == v.shapeAttr

\* str(value), line 48: [ok, s] the characters, or ok = FALSE when it raises
Str(v) ==
    CASE v.kind = "int" -> [ok |-> TRUE, s |-> IntStr(v.n)]
      [] v.kind = "float" ->
           [ok |-> TRUE,
            s |-> IntStr(v.n) \o <<".">> \o [i \in 1..Len(v.frac) |-> Digits[v.frac[i] + 1]]]
      [] v.kind = "str" -> [ok |-> TRUE, s |-> v.text]
      [] OTHER -> IF v.strRaises THEN [ok |-> FALSE, s |-> <<>>]
                  ELSE [ok |-> TRUE, s |-> v.text]

\* Faulty variant of TensorRepr: the shape is formatted as the tuple it is,
\* without list()
TensorReprTuple(v) ==
    IF v.shapeIter
    THEN [ok |-> TRUE,
          s |-> <<"t", "e", "n", "s", "o", "r", "(">>
                \o JoinCommaSpace([i \in 1..Len(v.shape) |-> IntStr(v.shape[i])]) \o <<")">>]
    ELSE [ok |-> FALSE, s |-> <<>>]

\* f"tensor{list(value.shape)}", line 46: raises when the shape is not iterable
TensorRepr(v) ==
    IF v.shapeIter
    THEN [ok |-> TRUE, s |-> <<"t", "e", "n", "s", "o", "r">> \o ListStr(v.shape)]
    ELSE [ok |-> FALSE, s |-> <<>>]

\* str(value)[:100], line 48
StrRepr(v) == IF Str(v).ok THEN [ok |-> TRUE, s |-> Slice(Str(v).s, TruncLen)] ELSE Str(v)

(***************************************************************************)
(* Python objects of the report: ints, strs and dicts (ordered).           *)
(***************************************************************************)
PyInt(n) == [t |-> "int", n |-> n, s |-> <<>>, items |-> <<>>]
PyStr(s) == [t |-> "str", n |-> 0, s |-> s, items |-> <<>>]
PyDict(items) == [t |-> "dict", n |-> 0, s |-> <<>>, items |-> items]

Keys(d) == {d.items[j][1] : j \in 1..Len(d.items)}
HasKey(d, k) == \E j \in 1..Len(d.items) : d.items[j][1] = k
\* d[k]
GetItem(d, k) == d.items[CHOOSE j \in 1..Len(d.items) : d.items[j][1] = k][2]
\* d[k] = v: replaces the value of an existing key, appends a new key
SetItem(d, k, v) ==
    IF HasKey(d, k)
    THEN PyDict([j \in 1..Len(d.items) |->
                    IF d.items[j][1] = k THEN <<k, v>> ELSE d.items[j]])
    ELSE PyDict(Append(d.items, <<k, v>>))

(***************************************************************************)
(* json.dumps(state, indent=2), line 55: the encoder of the standard       *)
(* library with ensure_ascii left on, item separator "," and key separator *)
(* ": ", each level indented by two spaces.                                *)
(***************************************************************************)
\* one character inside a JSON string
EscapeChar(c) ==
    CASE c = "\"" -> <<"\\", "\"">>
      [] c = "\\" -> <<"\\", "\\">>
      [] c = "\n" -> <<"\\", "n">>
      [] c = "<e9>" -> <<"\\", "u", "0", "0", "e", "9">>
      [] OTHER -> <<c>>

RECURSIVE EscapeAll(_)
\* the escapes of the characters of s, one after the other
EscapeAll(s) ==
    IF Len(s) = 0 THEN <<>>
    ELSE IF Len(s) = 1 THEN EscapeChar(s[1])
    ELSE EscapeAll(SubSeq(s, 1, Len(s) \div 2))
         \o EscapeAll(SubSeq(s, (Len(s) \div 2) + 1, Len(s)))

EncodeString(s) == <<"\"">> \o EscapeAll(s) \o <<"\"">>

NewlineIndent(level) == <<"\n">> \o Rep(" ", 2 * level)

RECURSIVE Encode(_, _)
RECURSIVE EncodeItems(_, _)
\* the items of a dict at the given nesting level
EncodeItems(items, level) ==
    LET first == EncodeString(items[1][1]) \o <<":", " ">> \o Encode(items[1][2], level)
    IN  IF Len(items) = 1 THEN first
        ELSE first \o <<",">> \o NewlineIndent(level) \o EncodeItems(Tail(items), level)

Encode(v, level) ==
    CASE v.t = "int" -> IntStr(v.n)
      [] v.t = "str" -> EncodeString(v.s)
      [] OTHER ->
           IF Len(v.items) = 0 THEN <<"{", "}">>
           ELSE <<"{">> \o NewlineIndent(level + 1) \o EncodeItems(v.items, level + 1)
                \o NewlineIndent(level) \o <<"}">>

Dumps(v) == Encode(v, 0)

(***************************************************************************)
(* State.  frames[p] is the frame of invocation p of DynamicInputs.execute:*)
(* its position pc, its locals kwargs, state, name, value and val_repr,    *)
(* the position it of the iterator of kwargs.items(), and the outcome:     *)
(* result, the string of the returned 1-tuple, or exc, the exception that  *)
(* left the call.  node is the DynamicInputs class and the one instance    *)
(* the host executes; registry is the module's registration tables.        *)
(***************************************************************************)
VARIABLES frames, node, registry

vars == <<frames, node, registry>>

\* invocations that may be in progress at once
Procs == {1, 2}

PyNone == [t |-> "none", n |-> 0, s |-> <<>>, items |-> <<>>]
NoValue == Value("none", <<>>, 0, <<>>, <<>>, FALSE, "absent", <<>>, FALSE)

\* no call in progress
Idle ==
    [pc |-> "idle", kwargs |-> <<>>, state |-> PyNone, it |-> 0, name |-> <<>>,
     value |-> NoValue, val_repr |-> <<>>, result |-> <<>>, exc |-> "none"]

\* class attributes (lines 26-29) and the attributes of the instance (none:
\* the class defines no __init__)
NodeInit ==
    [CATEGORY |-> "FrontendPatches", RETURN_TYPES |-> <<"STRING">>,
     RETURN_NAMES |-> <<"debug">>, FUNCTION |-> "execute", instance |-> <<>>]

\* lines 58-66
RegistryInit ==
    [NODE_CLASS_MAPPINGS |-> <<<<"DynamicInputs", "DynamicInputs">>>>,
     NODE_DISPLAY_NAME_MAPPINGS |-> <<<<"DynamicInputs", "Dynamic Inputs (Demo)">>>>,
     WEB_DIRECTORY |-> "./web"]

\* INPUT_TYPES(), lines 31-36: no required and no optional input is declared
INPUT_TYPES == [required |-> <<>>, optional |-> <<>>]

\* the keyword arguments a call can receive: up to max distinct names, in any
\* order, each with any value
KwargsOver(names, values, max) ==
    {kw \in UNION {[1..n -> names \X values] : n \in 0..max} :
        \A i, j \in 1..Len(kw) : kw[i][1] = kw[j][1] => i = j}

AllKwargs == KwargsOver(Names, Values, MaxInputs)

\* the inputs of the runs that overlap
ConcKwargs == KwargsOver({<<"x">>, <<"a">>}, {Five, Tensor23, StrRaises}, MaxInputs)

InputCountKey == <<"i", "n", "p", "u", "t", "_", "c", "o", "u", "n", "t">>
InputsKey == <<"i", "n", "p", "u", "t", "s">>
TypeKey == <<"t", "y", "p", "e">>
ValueKey == <<"v", "a", "l", "u", "e">>

(***************************************************************************)
(* The statements of execute, each a function from the frame before it to  *)
(* the frame after it.                                                     *)
(***************************************************************************)
\* the call binds **kwargs, line 38
Enter(kw) == [Idle EXCEPT !.pc = "state", !.kwargs = kw]

\* an exception leaves the frame: execute has no try statement
Raise(f, e) == [f EXCEPT !.pc = "raised", !.exc = e]

\* Faulty variant of BuildState: the count starts at zero and is never
\* incremented
BuildStateZero(f) ==
    [f EXCEPT !.pc = "for",
              !.state = PyDict(<< <<InputCountKey, PyInt(0)>>,
                                  <<InputsKey, PyDict(<<>>)>> >>)]

\* Faulty variant of BuildState: the inputs dict is one object shared by the
\* invocations, so it starts with the entries another invocation has stored
BuildStateShared(f) ==
    LET busy == {q \in Procs : frames[q].state.t = "dict"}
        shared == IF busy = {} THEN PyDict(<<>>)
                  ELSE GetItem(frames[CHOOSE q \in busy : TRUE].state, InputsKey)
    IN  [f EXCEPT !.pc = "for",
                  !.state = PyDict(<< <<InputCountKey, PyInt(Len(f.kwargs))>>,
                                      <<InputsKey, shared>> >>)]

\* lines 40-43
BuildState(f) ==
    [f EXCEPT !.pc = "for",
              !.state = PyDict(<< <<InputCountKey, PyInt(Len(f.kwargs))>>,
                                  <<InputsKey, PyDict(<<>>)>> >>)]

\* Faulty variant of ForNext: the loop stops one item early
ForNextSkipLast(f) ==
    IF f.it + 1 < Len(f.kwargs)
    THEN [f EXCEPT !.pc = "hasattr", !.it = f.it + 1,
                   !.name = f.kwargs[f.it + 1][1], !.value = f.kwargs[f.it + 1][2]]
    ELSE [f EXCEPT !.pc = "return"]

\* Faulty variant of ForNext: the loop consumes kwargs, taking items out of it
ForNextPop(f) ==
    IF Len(f.kwargs) > 0
    THEN [f EXCEPT !.pc = "hasattr", !.it = f.it + 1, !.kwargs = Tail(f.kwargs),
                   !.name = f.kwargs[1][1], !.value = f.kwargs[1][2]]
    ELSE [f EXCEPT !.pc = "return"]

\* line 44: the next item of kwargs.items(), or the end of the loop
ForNext(f) ==
    IF f.it < Len(f.kwargs)
    THEN [f EXCEPT !.pc = "hasattr", !.it = f.it + 1,
                   !.name = f.kwargs[f.it + 1][1], !.value = f.kwargs[f.it + 1][2]]
    ELSE [f EXCEPT !.pc = "return"]

\* line 45
TestShape(f) ==
    CASE HasAttrShape(f.value) = "present" -> [f EXCEPT !.pc = "tensor"]
      [] HasAttrShape(f.value) = "absent" -> [f EXCEPT !.pc = "str"]
      [] OTHER -> Raise(f, "RuntimeError")

\* Faulty variant of AssignTensorRepr: the slice is applied to both branches
AssignTensorReprSliced(f) ==
    IF TensorRepr(f.value).ok
    THEN [f EXCEPT !.pc = "store", !.val_repr = Slice(TensorRepr(f.value).s, TruncLen)]
    ELSE Raise(f, "TypeError")

\* line 46
AssignTensorRepr(f) ==
    IF TensorRepr(f.value).ok
    THEN [f EXCEPT !.pc = "store", !.val_repr = TensorRepr(f.value).s]
    ELSE Raise(f, "TypeError")

\* Faulty variant of AssignStrRepr: a try/except replaces a failed conversion
AssignStrReprCaught(f) ==
    IF StrRepr(f.value).ok
    THEN [f EXCEPT !.pc = "store", !.val_repr = StrRepr(f.value).s]
    ELSE [f EXCEPT !.pc = "store", !.val_repr = <<"<", "e", "r", "r", "o", "r", ">">>]

\* line 48
AssignStrRepr(f) ==
    IF StrRepr(f.value).ok
    THEN [f EXCEPT !.pc = "store", !.val_repr = StrRepr(f.value).s]
    ELSE Raise(f, "RuntimeError")

\* Faulty variant of StoreEntry: val_repr is kept where all invocations see
\* it, not in a local, and the entry gets what the first invocation left there
StoreEntryShared(f) ==
    LET entry == PyDict(<< <<TypeKey, PyStr(TypeName(f.value))>>,
                           <<ValueKey, PyStr(frames[1].val_repr)>> >>)
    IN  [f EXCEPT !.pc = "for",
                  !.state = SetItem(f.state, InputsKey,
                                    SetItem(GetItem(f.state, InputsKey), f.name, entry))]

\* lines 50-53
StoreEntry(f) ==
    LET entry == PyDict(<< <<TypeKey, PyStr(TypeName(f.value))>>,
                           <<ValueKey, PyStr(f.val_repr)>> >>)
    IN  [f EXCEPT !.pc = "for",
                  !.state = SetItem(f.state, InputsKey,
                                    SetItem(GetItem(f.state, InputsKey), f.name, entry))]

\* line 55
ReturnDumps(f) == [f EXCEPT !.pc = "done", !.result = Dumps(f.state)]

(***************************************************************************)
(* Actions: one per statement, for invocation p.                           *)
(***************************************************************************)
Init ==
    /\ frames = [p \in Procs |-> Idle]
    /\ node = NodeInit
    /\ registry = RegistryInit

\* the host calls execute with the values connected to the node
Call(p, inputs) ==
    /\ frames[p].pc = "idle"
    /\ \E kw \in inputs : frames' = [frames EXCEPT ![p] = Enter(kw)]
    /\ UNCHANGED <<node, registry>>

State(p) ==
    /\ frames[p].pc = "state"
    /\ frames' = [frames EXCEPT ![p] = BuildState(frames[p])]
    /\ UNCHANGED <<node, registry>>

For(p) ==
    /\ frames[p].pc = "for"
    /\ frames' = [frames EXCEPT ![p] = ForNext(frames[p])]
    /\ UNCHANGED <<node, registry>>

HasAttr(p) ==
    /\ frames[p].pc = "hasattr"
    /\ frames' = [frames EXCEPT ![p] = TestShape(frames[p])]
    /\ UNCHANGED <<node, registry>>

Tensor(p) ==
    /\ frames[p].pc = "tensor"
    /\ frames' = [frames EXCEPT ![p] = AssignTensorRepr(frames[p])]
    /\ UNCHANGED <<node, registry>>

StrSlice(p) ==
    /\ frames[p].pc = "str"
    /\ frames' = [frames EXCEPT ![p] = AssignStrRepr(frames[p])]
    /\ UNCHANGED <<node, registry>>

Store(p) ==
    /\ frames[p].pc = "store"
    /\ frames' = [frames EXCEPT ![p] = StoreEntry(frames[p])]
    /\ UNCHANGED <<node, registry>>

Return(p) ==
    /\ frames[p].pc = "return"
    /\ frames' = [frames EXCEPT ![p] = ReturnDumps(frames[p])]
    /\ UNCHANGED <<node, registry>>

\* the host takes the result or the exception; the frame is gone
Finish(p) ==
    /\ frames[p].pc \in {"done", "raised"}
    /\ frames' = [frames EXCEPT ![p] = Idle]
    /\ UNCHANGED <<node, registry>>

Run(p) ==
    \/ State(p)
    \/ For(p)
    \/ HasAttr(p)
    \/ Tensor(p)
    \/ StrSlice(p)
    \/ Store(p)
    \/ Return(p)
    \/ Finish(p)

\* one call after another, any inputs
Next == Call(1, AllKwargs) \/ Run(1)

Spec == Init /\ [][Next]_vars

\* calls that overlap, on the same instance
ConcNext == \E p \in Procs : Call(p, ConcKwargs) \/ Run(p)

ConcSpec == Init /\ [][ConcNext]_vars

(***************************************************************************)
(* Decoding.  Loads reads a JSON text of objects, strings and integers     *)
(* back into Python objects, as json.loads does; [ok |-> FALSE] when the   *)
(* text is not JSON.  It is what "the output decodes to" means below.      *)
(***************************************************************************)
At(s, i) == IF i >= 1 /\ i <= Len(s) THEN s[i] ELSE "EOF"

ParseFail == [ok |-> FALSE, v |-> PyNone, i |-> 0]

IsDigit(c) == \E d \in 1..10 : Digits[d] = c
DigitOf(c) == (CHOOSE d \in 1..10 : Digits[d] = c) - 1

\* the first position from i on that holds no white space
SkipWs(s, i) ==
    CHOOSE j \in i..(Len(s) + 1) :
        /\ At(s, j) \notin {" ", "\n"}
        /\ \A k \in i..(j - 1) : At(s, k) \in {" ", "\n"}

RECURSIVE ParseDigits(_, _, _)
ParseDigits(s, i, acc) ==
    IF IsDigit(At(s, i)) THEN ParseDigits(s, i + 1, 10 * acc + DigitOf(At(s, i)))
    ELSE [ok |-> TRUE, v |-> PyInt(acc), i |-> i]

ParseInt(s, i) ==
    IF At(s, i) = "-"
    THEN IF IsDigit(At(s, i + 1))
         THEN LET r == ParseDigits(s, i + 1, 0)
              IN  [ok |-> TRUE, v |-> PyInt(0 - r.v.n), i |-> r.i]
         ELSE ParseFail
    ELSE IF IsDigit(At(s, i)) THEN ParseDigits(s, i, 0) ELSE ParseFail

\* the number of backslashes that end right before position j
Backslashes(s, j) ==
    CHOOSE n \in 0..(j - 1) :
        /\ \A m \in (j - n)..(j - 1) : s[m] = "\\"
        /\ j - n - 1 = 0 \/ s[j - n - 1] # "\\"

\* position j holds the character an escape is about
Escaped(s, j) == Backslashes(s, j) % 2 = 1

\* position j holds one of the four hex digits of a \uXXXX escape
InHex(s, j) == \E k \in 1..4 : j - k >= 1 /\ s[j - k] = "u" /\ Escaped(s, j - k)

\* what position j of the text of a string stands for: one character, or
\* nothing ("SKIP"), or no JSON at all ("BAD")
Unescape(s, j) ==
    CASE InHex(s, j) -> "SKIP"
      [] Escaped(s, j) ->
           CASE s[j] = "\"" -> "\""
             [] s[j] = "\\" -> "\\"
             [] s[j] = "n" -> "\n"
             [] s[j] = "u" ->
                  IF SubSeq(s, j + 1, j + 4) = <<"0", "0", "e", "9">> THEN "<e9>" ELSE "BAD"
             [] OTHER -> "BAD"
      [] s[j] = "\\" -> "SKIP"
      [] s[j] = "\n" -> "BAD"
      [] OTHER -> s[j]

\* the string whose text starts at i, up to its closing quote
ParseChars(s, i) ==
    LET ends == {j \in i..Len(s) : s[j] = "\"" /\ ~Escaped(s, j)}
        close == CHOOSE j \in ends : \A k \in ends : j <= k
        chars == [j \in 1..(close - i) |-> Unescape(s, i + j - 1)]
        NotSkipped(c) == c # "SKIP"
    IN  IF ends = {} THEN ParseFail
        ELSE IF \E j \in 1..Len(chars) : chars[j] = "BAD" THEN ParseFail
        ELSE [ok |-> TRUE, v |-> PyStr(SelectSeq(chars, NotSkipped)), i |-> close + 1]

ParseString(s, i) == IF At(s, i) = "\"" THEN ParseChars(s, i + 1) ELSE ParseFail

RECURSIVE ParseValue(_, _)
RECURSIVE ParseMembers(_, _, _)
\* the members of an object from the one at i on; a repeated key keeps the
\* last value
ParseMembers(s, i, acc) ==
    LET k == ParseString(s, i)
        colon == SkipWs(s, k.i)
        v == ParseValue(s, SkipWs(s, colon + 1))
        after == SkipWs(s, v.i)
    IN  IF ~k.ok \/ At(s, colon) # ":" THEN ParseFail
        ELSE IF ~v.ok THEN ParseFail
        ELSE CASE At(s, after) = "," ->
                    ParseMembers(s, SkipWs(s, after + 1), SetItem(acc, k.v.s, v.v))
               [] At(s, after) = "}" ->
                    [ok |-> TRUE, v |-> SetItem(acc, k.v.s, v.v), i |-> after + 1]
               [] OTHER -> ParseFail

ParseValue(s, i) ==
    CASE At(s, i) = "{" ->
           IF At(s, SkipWs(s, i + 1)) = "}"
           THEN [ok |-> TRUE, v |-> PyDict(<<>>), i |-> SkipWs(s, i + 1) + 1]
           ELSE ParseMembers(s, SkipWs(s, i + 1), PyDict(<<>>))
      [] At(s, i) = "\"" -> ParseString(s, i)
      [] OTHER -> ParseInt(s, i)

Loads(s) ==
    LET r == ParseValue(s, SkipWs(s, 1))
    IN  IF r.ok /\ SkipWs(s, r.i) = Len(s) + 1 THEN [ok |-> TRUE, v |-> r.v]
        ELSE [ok |-> FALSE, v |-> PyNone]

(***************************************************************************)
(* Properties.  The report a call returns is read back from the returned   *)
(* string with Loads.                                                      *)
(***************************************************************************)
Done(p) == frames[p].pc = "done"
Raised(p) == frames[p].pc = "raised"

\* the names of the inputs of invocation p
InputNames(p) == {frames[p].kwargs[i][1] : i \in 1..Len(frames[p].kwargs)}

\* d[k] of a decoded object, PyNone where d is no dict or has no key k
Field(d, k) == IF d.t = "dict" /\ HasKey(d, k) THEN GetItem(d, k) ELSE PyNone

\* in a decoded report r: the entry of a name, its value and its type
EntryIn(r, nm) == Field(Field(r, InputsKey), nm)
RecordedIn(r, nm) == Field(EntryIn(r, nm), ValueKey)
TypeIn(r, nm) == Field(EntryIn(r, nm), TypeKey)

TensorPrefix == <<"t", "e", "n", "s", "o", "r">>
Tensor23Text == <<"t", "e", "n", "s", "o", "r", "[", "2", ",", " ", "3", "]">>

\* C1: the output of a call with N named values decodes to a report whose
\* input_count is N; the empty input set gives input_count 0 and an empty
\* inputs mapping.
C1_InputCount ==
    \A p \in Procs : Done(p) =>
        LET d == Loads(frames[p].result)
        IN  /\ d.ok
            /\ Field(d.v, InputCountKey) = PyInt(Cardinality(InputNames(p)))
            /\ frames[p].kwargs = <<>> =>
                   d.v = PyDict(<< <<InputCountKey, PyInt(0)>>,
                                   <<InputsKey, PyDict(<<>>)>> >>)

C1_Witness ==
    /\ Done(1)
    /\ Cardinality(InputNames(1)) = MaxInputs
    /\ Field(Loads(frames[1].result).v, InputCountKey) = PyInt(MaxInputs)

\* C2: the keys of the inputs mapping of the report are the supplied names,
\* one entry for each and none for any other name.
C2_KeySet ==
    \A p \in Procs : Done(p) =>
        LET inputs == Field(Loads(frames[p].result).v, InputsKey)
        IN  /\ inputs.t = "dict"
            /\ Keys(inputs) = InputNames(p)
            /\ Len(inputs.items) = Cardinality(InputNames(p))

C2_Witness ==
    /\ Done(1)
    /\ Keys(Field(Loads(frames[1].result).v, InputsKey)) = {<<"x">>, <<"b", "\"">>}

\* C3: a value with a shape attribute is recorded as "tensor" followed by
\* the shape as a list, stringified; the shape [2, 3] gives "tensor[2, 3]".
C3_TensorValue ==
    \A p \in Procs : Done(p) =>
        LET r == Loads(frames[p].result).v
        IN  \A i \in 1..Len(frames[p].kwargs) :
                LET nm == frames[p].kwargs[i][1]
                    v == frames[p].kwargs[i][2]
                IN  v.shapeAttr = "present" =>
                      /\ RecordedIn(r, nm) = PyStr(TensorPrefix \o ListStr(v.shape))
                      /\ v.shape = <<2, 3>> => RecordedIn(r, nm).s = Tensor23Text

C3_Witness ==
    /\ Done(1)
    /\ frames[1].kwargs = << <<<<"x">>, Tensor23>> >>
    /\ RecordedIn(Loads(frames[1].result).v, <<"x">>).s = Tensor23Text

\* the string form of a value is longer than the slice keeps
LongForm(v) == Str(v).ok /\ Len(Str(v).s) > TruncLen

\* C4 as stated: for any value whose string form is longer than 100
\* characters the recorded value is the first 100 characters of that form.
C4_AnyLongValue ==
    \A p \in Procs : Done(p) =>
        LET r == Loads(frames[p].result).v
        IN  \A i \in 1..Len(frames[p].kwargs) :
                LET nm == frames[p].kwargs[i][1]
                    v == frames[p].kwargs[i][2]
                IN  LongForm(v) => RecordedIn(r, nm) = PyStr(SubSeq(Str(v).s, 1, TruncLen))

\* C4 amended: for any value without a shape attribute whose string form is
\* longer than 100 characters the recorded value is the first 100
\* characters of that form.
C4_LongValueNoShape ==
    \A p \in Procs : Done(p) =>
        LET r == Loads(frames[p].result).v
        IN  \A i \in 1..Len(frames[p].kwargs) :
                LET nm == frames[p].kwargs[i][1]
                    v == frames[p].kwargs[i][2]
                IN  v.shapeAttr = "absent" /\ LongForm(v) =>
                      /\ RecordedIn(r, nm) = PyStr(SubSeq(Str(v).s, 1, TruncLen))
                      /\ Len(RecordedIn(r, nm).s) = TruncLen

C4_Witness ==
    /\ Done(1)
    /\ frames[1].kwargs = << <<<<"a">>, LongStr>> >>
    /\ RecordedIn(Loads(frames[1].result).v, <<"a">>).s = Rep("z", TruncLen)

\* C5: the type of an entry is the name of the class of the value, an entry
\* has the two fields type and value and no other, and the inputs {"x": 5}
\* give {"input_count": 1, "inputs": {"x": {"type": "int", "value": "5"}}}.
C5_TypeField ==
    \A p \in Procs : Done(p) =>
        LET r == Loads(frames[p].result).v
        IN  /\ \A i \in 1..Len(frames[p].kwargs) :
                  LET nm == frames[p].kwargs[i][1]
                      v == frames[p].kwargs[i][2]
                      entry == EntryIn(r, nm)
                  IN  /\ entry.t = "dict"
                      /\ Keys(entry) = {TypeKey, ValueKey}
                      /\ Len(entry.items) = Cardinality({TypeKey, ValueKey})
                      /\ Field(entry, TypeKey) = PyStr(v.cls)
                      /\ Field(entry, ValueKey).t = "str"
            /\ frames[p].kwargs = << <<<<"x">>, Five>> >> =>
                  r = PyDict(<< <<InputCountKey, PyInt(1)>>,
                                <<InputsKey,
                                  PyDict(<< <<<<"x">>,
                                     PyDict(<< <<TypeKey, PyStr(<<"i", "n", "t">>)>>,
                                               <<ValueKey, PyStr(<<"5">>)>> >>)>> >>)>> >>)

C5_Witness ==
    /\ Done(1)
    /\ frames[1].kwargs = << <<<<"x">>, Five>> >>
    /\ TypeIn(Loads(frames[1].result).v, <<"x">>) = PyStr(<<"i", "n", "t">>)

Finished(p) == Done(p) \/ Raised(p)

C7_NoSideEffects ==
    /\ node = NodeInit
    /\ registry = RegistryInit
    /\ [][/\ node' = node
          /\ registry' = registry
          /\ \A p \in Procs :
                /\ frames[p].pc # "idle" /\ frames'[p].pc # "idle" =>
                       frames'[p].kwargs = frames[p].kwargs
                /\ frames'[p].pc = "idle" => frames'[p] = Idle]_vars

C7_Witness ==
    /\ Done(1)
    /\ frames[1].it = MaxInputs
    /\ Len(frames[1].kwargs) = MaxInputs
    /\ node = NodeInit
    /\ registry = RegistryInit

\* the value string of the report for a value: "tensor" and the shape list
\* for a value with a shape, else the first 100 characters of its string form
Rendering(v) ==
    IF v.shapeAttr = "present" THEN TensorPrefix \o ListStr(v.shape)
    ELSE SubSeq(Str(v).s, 1, Min(TruncLen, Len(Str(v).s)))

\* the debug report of an input set
ReportOf(kw) ==
    PyDict(<< <<InputCountKey, PyInt(Len(kw))>>,
              <<InputsKey,
                PyDict([i \in 1..Len(kw) |->
                          <<kw[i][1],
                            PyDict(<< <<TypeKey, PyStr(kw[i][2].cls)>>,
                                      <<ValueKey, PyStr(Rendering(kw[i][2]))>> >>)>>])>> >>)

\* what execute does with the value raises
Fails(v) ==
    \/ v.shapeAttr = "raises"
    \/ v.shapeAttr = "present" /\ ~v.shapeIter
    \/ v.shapeAttr = "absent" /\ ~Str(v).ok

\* C8: under every interleaving of invocations, each one returns the report
\* of its own input set only, and raises only for a value of its own.
C8_OwnReportOnly ==
    \A p \in Procs :
        /\ Done(p) => Loads(frames[p].result) = [ok |-> TRUE, v |-> ReportOf(frames[p].kwargs)]
        /\ Raised(p) => \E i \in 1..Len(frames[p].kwargs) : Fails(frames[p].kwargs[i][2])

C8_Witness ==
    /\ Done(1)
    /\ Done(2)
    /\ frames[1].kwargs = << <<<<"x">>, Five>> >>
    /\ frames[2].kwargs = << <<<<"a">>, Tensor23>>, <<<<"x">>, Tensor23>> >>
    /\ frames[1].result # frames[2].result

\* C9: a failure of the string conversion or of the attribute access leaves
\* execute as an exception: the call returns no report, not even of the
\* inputs it had processed, and no call with a failing value returns one.
C9_FailurePropagates ==
    \A p \in Procs :
        /\ Done(p) => \A i \in 1..Len(frames[p].kwargs) : ~Fails(frames[p].kwargs[i][2])
        /\ Raised(p) =>
              /\ frames[p].result = <<>>
              /\ frames[p].exc # "none"
              /\ frames[p].it >= 1
              /\ frames[p].value = frames[p].kwargs[frames[p].it][2]
              /\ Fails(frames[p].value)
        /\ frames[p].pc = "store" => ~Fails(frames[p].value)

C9_Witness ==
    /\ Raised(1)
    /\ frames[1].kwargs = << <<<<"x">>, Five>>, <<<<"a">>, StrRaises>> >>
    /\ Len(Field(frames[1].state, InputsKey).items) = 1
    /\ frames[1].result = <<>>

\* C10: the shape check comes first and its rendering is never cut: a value
\* with a shape is recorded as "tensor" and the whole shape list whatever
\* its string form, a value without one is recorded in at most 100
\* characters, and a value with one can be recorded in more.
C10_ShapePrecedence ==
    \A p \in Procs : Done(p) =>
        LET r == Loads(frames[p].result).v
        IN  \A i \in 1..Len(frames[p].kwargs) :
                LET nm == frames[p].kwargs[i][1]
                    v == frames[p].kwargs[i][2]
                    rec == RecordedIn(r, nm).s
                IN  /\ v.shapeAttr = "present" =>
                        /\ Len(rec) = Len(TensorPrefix) + Len(ListStr(v.shape))
                        /\ SubSeq(rec, 1, Len(TensorPrefix)) = TensorPrefix
                        /\ SubSeq(rec, Len(TensorPrefix) + 1, Len(rec)) = ListStr(v.shape)
                    /\ v.shapeAttr = "absent" => Len(rec) <= TruncLen

C10_Witness ==
    /\ Done(1)
    /\ frames[1].kwargs = << <<<<"a">>, DeepTensor>> >>
    /\ Len(RecordedIn(Loads(frames[1].result).v, <<"a">>).s) > TruncLen

====
